---------------------------- MODULE Spec2Model ----------------------------
(***************************************************************************)
(* PySmaz (lib/smaz.py): the SMAZ short-string codec.                      *)
(*                                                                         *)
(* A Python str is modelled as a sequence of character codes 0..255 (the   *)
(* byte strings of Python 2, the interpreter the test-suite runs on: `/`   *)
(* on two ints is integer division).  Python's 0-based positions are kept: *)
(* input_str[pos] is written At(input_str, pos).                           *)
(*                                                                         *)
(* A call's outcome is a record [kind, value]: kind "ok" with the returned *)
(* string, kind "None" for a returned None, kind "ValueError" for a raised *)
(* ValueError.                                                             *)
(***************************************************************************)
EXTENDS Integers, Sequences, FiniteSets, TLC

\* ------------------------------------------------------------------------
\* Bounds of the model
\* ------------------------------------------------------------------------
MaxLen == 5          \* longest text handed to the encoders
MaxStreamLen == 5    \* longest arbitrary byte stream handed to the decoder
MaxRawLen == 515     \* longest raw string handed to _encapsulate
MaxCopies == 3       \* most copies of one dictionary entry in a text
SmallLimit == 1      \* a backtrack_limit below the default
MaxStepLen == 4      \* longest text over the alphabet encoded step by step
MaxTableLen == 3     \* most entries of a small custom table
MaxTableTextLen == 2 \* longest text compressed with a custom table
MaxThreads == 2      \* concurrent calls
LongTextLen == 257   \* longest of the long texts handed to the encoders
MaxTermLen == 3      \* longest text or stream of the calls followed to their return

\* ------------------------------------------------------------------------
\* Python values
\* ------------------------------------------------------------------------
None == -1                      \* Python's None where a byte or a pointer is expected
Ok(s) == [kind |-> "ok", value |-> s]
ReturnNone == [kind |-> "None", value |-> <<>>]
RaiseValueError == [kind |-> "ValueError", value |-> <<>>]

At(s, i) == s[i + 1]                                     \* s[i]
Slice(s, a, b) == SubSeq(s, a + 1, IF b < Len(s) THEN b ELSE Len(s))  \* s[a:b]

BACKTRACK_LIMIT == 254

DECODE ==
  <<
    <<32>>, <<116,104,101>>, <<101>>, <<116>>, <<97>>, <<111,102>>, <<111>>, <<97,110,100>>,
    <<105>>, <<110>>, <<115>>, <<101,32>>, <<114>>, <<32,116,104>>, <<32,116>>, <<105,110>>,
    <<104,101>>, <<116,104>>, <<104>>, <<104,101,32>>, <<116,111>>, <<13,10>>, <<108>>,
    <<115,32>>, <<100>>, <<32,97>>, <<97,110>>, <<101,114>>, <<99>>, <<32,111>>, <<100,32>>,
    <<111,110>>, <<32,111,102>>, <<114,101>>, <<111,102,32>>, <<116,32>>, <<44,32>>,
    <<105,115>>, <<117>>, <<97,116>>, <<32,32,32>>, <<110,32>>, <<111,114>>,
    <<119,104,105,99,104>>, <<102>>, <<109>>, <<97,115>>, <<105,116>>, <<116,104,97,116>>,
    <<10>>, <<119,97,115>>, <<101,110>>, <<32,32>>, <<32,119>>, <<101,115>>, <<32,97,110>>,
    <<32,105>>, <<13>>, <<102,32>>, <<103>>, <<112>>, <<110,100>>, <<32,115>>, <<110,100,32>>,
    <<101,100,32>>, <<119>>, <<101,100>>, <<104,116,116,112,58,47,47>>, <<102,111,114>>,
    <<116,101>>, <<105,110,103>>, <<121,32>>, <<84,104,101>>, <<32,99>>, <<116,105>>,
    <<114,32>>, <<104,105,115>>, <<115,116>>, <<32,105,110>>, <<97,114>>, <<110,116>>, <<44>>,
    <<32,116,111>>, <<121>>, <<110,103>>, <<32,104>>, <<119,105,116,104>>, <<108,101>>,
    <<97,108>>, <<116,111,32>>, <<98>>, <<111,117>>, <<98,101>>, <<119,101,114,101>>, <<32,98>>,
    <<115,101>>, <<111,32>>, <<101,110,116>>, <<104,97>>, <<110,103,32>>,
    <<116,104,101,105,114>>, <<34>>, <<104,105>>, <<102,114,111,109>>, <<32,102>>,
    <<105,110,32>>, <<100,101>>, <<105,111,110>>, <<109,101>>, <<118>>, <<46>>, <<118,101>>,
    <<97,108,108>>, <<114,101,32>>, <<114,105>>, <<114,111>>, <<105,115,32>>, <<99,111>>,
    <<102,32,116>>, <<97,114,101>>, <<101,97>>, <<46,32>>, <<104,101,114>>, <<32,109>>,
    <<101,114,32>>, <<32,112>>, <<101,115,32>>, <<98,121>>, <<116,104,101,121>>, <<100,105>>,
    <<114,97>>, <<105,99>>, <<110,111,116>>, <<115,44,32>>, <<100,32,116>>, <<97,116,32>>,
    <<99,101>>, <<108,97>>, <<104,32>>, <<110,101>>, <<97,115,32>>, <<116,105,111>>,
    <<111,110,32>>, <<110,32,116>>, <<105,111>>, <<119,101>>, <<32,97,32>>, <<111,109>>,
    <<44,32,97>>, <<115,32,111>>, <<117,114>>, <<108,105>>, <<108,108>>, <<99,104>>,
    <<104,97,100>>, <<116,104,105,115>>, <<101,32,116>>, <<103,32>>, <<101,13,10>>,
    <<32,119,104>>, <<101,114,101>>, <<32,99,111>>, <<101,32,111>>, <<97,32>>, <<117,115>>,
    <<32,100>>, <<115,115>>, <<10,13,10>>, <<13,10,13>>, <<61,34>>, <<32,98,101>>, <<32,101>>,
    <<115,32,97>>, <<109,97>>, <<111,110,101>>, <<116,32,116>>, <<111,114,32>>, <<98,117,116>>,
    <<101,108>>, <<115,111>>, <<108,32>>, <<101,32,115>>, <<115,44>>, <<110,111>>,
    <<116,101,114>>, <<32,119,97>>, <<105,118>>, <<104,111>>, <<101,32,97>>, <<32,114>>,
    <<104,97,116>>, <<115,32,116>>, <<110,115>>, <<99,104,32>>, <<119,104>>, <<116,114>>,
    <<117,116>>, <<47>>, <<104,97,118,101>>, <<108,121,32>>, <<116,97>>, <<32,104,97>>,
    <<32,111,110>>, <<116,104,97>>, <<45>>, <<32,108>>, <<97,116,105>>, <<101,110,32>>,
    <<112,101>>, <<32,114,101>>, <<116,104,101,114,101>>, <<97,115,115>>, <<115,105>>,
    <<32,102,111>>, <<119,97>>, <<101,99>>, <<111,117,114>>, <<119,104,111>>, <<105,116,115>>,
    <<122>>, <<102,111>>, <<114,115>>, <<62>>, <<111,116>>, <<117,110>>, <<60>>, <<105,109>>,
    <<116,104,32>>, <<110,99>>, <<97,116,101>>, <<62,60>>, <<118,101,114>>, <<97,100>>,
    <<32,119,101>>, <<108,121>>, <<101,101>>, <<32,110>>, <<105,100>>, <<32,99,108>>, <<97,99>>,
    <<105,108>>, <<60,47>>, <<114,116>>, <<32,119,105>>, <<100,105,118>>, <<101,44,32>>,
    <<32,105,116>>, <<119,104,105>>, <<32,109,97>>, <<103,101>>, <<120>>, <<101,32,99>>,
    <<109,101,110>>, <<46,99,111,109>>
  >>

\* ------------------------------------------------------------------------
\* make_trie and make_tree.  The nodes of a tree are modelled as a map from
\* the path of a node (the characters walked from the root table) to the node
\* [byte, children]: byte is the node's terminal byte or None, children says
\* whether the node holds a child table (TRUE) or None (FALSE).  A tree is
\* [container, nodes]: make_trie builds its tables as lists indexed by
\* ord(ch), make_tree as dicts keyed by ch.
\* ------------------------------------------------------------------------
NewNode(terminal_byte) == [byte |-> terminal_byte, children |-> TRUE]

RECURSIVE InsertFromNewOnly(_, _, _, _)
\* The walk that sets a terminal byte on the nodes it creates only: an entry
\* ending on a node that is already there leaves it as it is.
InsertFromNewOnly(nodes, enc_byte, sstr, str_pos) ==
    IF str_pos >= Len(sstr)
    THEN Ok(nodes)
    ELSE LET path == SubSeq(sstr, 1, str_pos + 1)
             at_end == Len(sstr) = str_pos + 1
         IN  IF path \in DOMAIN nodes
             THEN IF at_end
                  THEN IF nodes[path].byte = None
                       THEN Ok(nodes)
                       ELSE RaiseValueError
                  ELSE InsertFromNewOnly(nodes, enc_byte, sstr, str_pos + 1)
             ELSE IF at_end
                  THEN Ok(nodes @@ (path :> NewNode(enc_byte)))
                  ELSE InsertFromNewOnly(nodes @@ (path :> NewNode(None)),
                                         enc_byte, sstr, str_pos + 1)

RECURSIVE InsertFrom(_, _, _, _)
\* The walk of one table entry sstr from its character str_pos on.
InsertFrom(nodes, enc_byte, sstr, str_pos) ==
    IF str_pos >= Len(sstr)
    THEN Ok(nodes)
    ELSE LET path == SubSeq(sstr, 1, str_pos + 1)
             at_end == Len(sstr) = str_pos + 1
         IN  IF path \in DOMAIN nodes
             THEN IF at_end
                  THEN IF nodes[path].byte = None
                       THEN Ok([nodes EXCEPT ![path].byte = enc_byte])
                       ELSE RaiseValueError
                  ELSE InsertFrom(nodes, enc_byte, sstr, str_pos + 1)
             ELSE IF at_end
                  THEN Ok(nodes @@ (path :> NewNode(enc_byte)))
                  ELSE InsertFrom(nodes @@ (path :> NewNode(None)),
                                  enc_byte, sstr, str_pos + 1)

RECURSIVE InsertAllFromOne(_, _, _, _)
\* The entries numbered from one: each gets the code after its index.
InsertAllFromOne(nodes, decode_table, lo, hi) ==
    IF lo >= hi
    THEN Ok(nodes)
    ELSE IF hi = lo + 1
         THEN InsertFrom(nodes, lo + 1, At(decode_table, lo), 0)
         ELSE LET mid == (lo + hi) \div 2
                  r == InsertAllFromOne(nodes, decode_table, lo, mid)
              IN  IF r.kind = "ok"
                  THEN InsertAllFromOne(r.value, decode_table, mid, hi)
                  ELSE r

RECURSIVE InsertAll(_, _, _, _)
\* for enc_byte, sstr in enumerate(decode_table): the entries lo..hi-1 in their
\* order, the first half before the second so that the evaluation of a long
\* table does not nest one level per entry.
InsertAll(nodes, decode_table, lo, hi) ==
    IF lo >= hi
    THEN Ok(nodes)
    ELSE IF hi = lo + 1
         THEN InsertFrom(nodes, lo, At(decode_table, lo), 0)
         ELSE LET mid == (lo + hi) \div 2
                  r == InsertAll(nodes, decode_table, lo, mid)
              IN  IF r.kind = "ok"
                  THEN InsertAll(r.value, decode_table, mid, hi)
                  ELSE r

\* The pass after the build: a node whose child table is empty gets None for it.
PruneEmpty(nodes) ==
    [p \in DOMAIN nodes |->
        [nodes[p] EXCEPT !.children =
            \E q \in DOMAIN nodes : Len(q) = Len(p) + 1 /\ SubSeq(q, 1, Len(p)) = p]]

make_trie(decode_table) ==
    IF decode_table = <<>>
    THEN RaiseValueError
    ELSE IF Len(decode_table) > 254
         THEN RaiseValueError
         ELSE LET r == InsertAll(<<>>, decode_table, 0, Len(decode_table))
              IN  IF r.kind = "ok"
                  THEN Ok([container |-> "list", nodes |-> PruneEmpty(r.value)])
                  ELSE r

\* The same build over dicts, without the pass that replaces empty child
\* tables by None; decode_table is <<>> for None and for the empty list.
make_tree(decode_table) ==
    IF decode_table = <<>>
    THEN RaiseValueError
    ELSE IF Len(decode_table) > 254
         THEN RaiseValueError
         ELSE LET r == InsertAll(<<>>, decode_table, 0, Len(decode_table))
              IN  IF r.kind = "ok"
                  THEN Ok([container |-> "dict", nodes |-> r.value])
                  ELSE r

SMAZ_TREE == make_trie(DECODE).value

\* ------------------------------------------------------------------------
\* Encapsulation
\* ------------------------------------------------------------------------
\* The check that passes a string as soon as one of its characters is ASCII.
_check_ascii_any(sstr) == \E i \in 1..Len(sstr) : sstr[i] < 128

_check_ascii(sstr) == \A i \in 1..Len(sstr) : sstr[i] < 128

\* A chunk whose length byte is the length itself, not the length less one.
EncapsulateChunkLength(chunk) ==
    IF 1 = Len(chunk)
    THEN <<254>> \o chunk
    ELSE <<255, Len(chunk)>> \o chunk

\* A chunk that is a run whatever its length, a run of one byte too.
EncapsulateChunkRun(chunk) == <<255, Len(chunk) - 1>> \o chunk

\* One chunk of at most 255 characters, as _encapsulate appends it.
EncapsulateChunk(chunk) ==
    IF 1 = Len(chunk)
    THEN <<254>> \o chunk
    ELSE <<255, Len(chunk) - 1>> \o chunk

RECURSIVE EncapsulateChunks(_, _)
\* for chunk in (input_str[i:i+255] for i in range(0, len(input_str), 255))
EncapsulateChunks(input_str, i) ==
    IF i >= Len(input_str)
    THEN <<>>
    ELSE EncapsulateChunk(Slice(input_str, i, i + 255))
            \o EncapsulateChunks(input_str, i + 255)

_encapsulate(input_str) ==
    IF input_str = <<>> THEN input_str ELSE EncapsulateChunks(input_str, 0)

\* A chunk of the list extended onto output with a 254 before it, whatever
\* its length.
EncapsulateListChunkLiteral(output, chunk) == Append(output, 254) \o chunk

\* One chunk of at most 255 elements, as _encapsulate_list extends output by it.
EncapsulateListChunk(output, chunk) ==
    IF 1 = Len(chunk)
    THEN Append(output, 254) \o chunk
    ELSE (output \o <<255, Len(chunk) - 1>>) \o chunk

RECURSIVE EncapsulateListChunks(_, _, _)
\* for chunk in (input_list[i:i+255] for i in range(0, len(input_list), 255))
EncapsulateListChunks(input_list, i, output) ==
    IF i >= Len(input_list)
    THEN output
    ELSE EncapsulateListChunks(input_list, i + 255,
            EncapsulateListChunk(output, Slice(input_list, i, i + 255)))

\* The list of characters is a sequence of bytes here, as a string is.
_encapsulate_list(input_list) ==
    IF input_list = <<>>
    THEN input_list
    ELSE EncapsulateListChunks(input_list, 0, <<>>)

\* The worst size by the general form alone, without the branch for lengths
\* that are 0 or 1 modulo 255.
_worst_size_general(str_len) ==
    IF str_len = 0
    THEN 0
    ELSE IF str_len = 1
         THEN 2
         ELSE ((str_len \div 255) + 1) * 2 + str_len

_worst_size(str_len) ==
    IF str_len = 0
    THEN 0
    ELSE IF str_len = 1
         THEN 2
         ELSE IF str_len % 255 \in {0, 1}
              THEN (str_len \div 255) * 2 + str_len + (str_len % 255)
              ELSE ((str_len \div 255) + 1) * 2 + str_len

\* ------------------------------------------------------------------------
\* The encoders
\* ------------------------------------------------------------------------
NoMatch == [enc_byte |-> None, enc_len |-> 0]

RECURSIVE SearchFirst(_, _, _, _, _, _)
\* The search that keeps the first match of the walk, not the longest.
SearchFirst(tree, input_str, pos, j, path, enc) ==
    IF j < Len(input_str) - pos
    THEN LET child == Append(path, At(input_str, pos + j))
             found == child \in DOMAIN tree.nodes
             byte_val == IF found THEN tree.nodes[child].byte ELSE None
             enc2 == IF byte_val # None /\ enc.enc_byte = None
                     THEN [enc_byte |-> byte_val, enc_len |-> j + 1]
                     ELSE enc
         IN  IF found /\ tree.nodes[child].children
             THEN SearchFirst(tree, input_str, pos, j + 1, child, enc2)
             ELSE enc2
    ELSE enc

RECURSIVE SearchWalked(_, _, _, _, _, _)
\* The search whose match is as long as the walk went, not as the entry is.
SearchWalked(tree, input_str, pos, j, path, enc) ==
    IF j < Len(input_str) - pos
    THEN LET child == Append(path, At(input_str, pos + j))
             found == child \in DOMAIN tree.nodes
             byte_val == IF found THEN tree.nodes[child].byte ELSE None
             enc2 == IF byte_val # None
                     THEN [enc_byte |-> byte_val, enc_len |-> j + 1]
                     ELSE enc
         IN  IF found /\ tree.nodes[child].children
             THEN SearchWalked(tree, input_str, pos, j + 1, child, enc2)
             ELSE [enc2 EXCEPT !.enc_len = j + 1]
    ELSE [enc EXCEPT !.enc_len = j]

RECURSIVE Search(_, _, _, _, _, _)
\* The inner while loop: search the tree for the longest matching sequence.
\* path is the walk so far (tree_ptr is the child table of the node there),
\* enc the last match remembered.
Search(tree, input_str, pos, j, path, enc) ==
    IF j < Len(input_str) - pos
    THEN LET child == Append(path, At(input_str, pos + j))
             found == child \in DOMAIN tree.nodes  \* else terminal_tree_node
             byte_val == IF found THEN tree.nodes[child].byte ELSE None
             enc2 == IF byte_val # None
                     THEN [enc_byte |-> byte_val, enc_len |-> j + 1]
                     ELSE enc
         IN  IF found /\ tree.nodes[child].children
             THEN Search(tree, input_str, pos, j + 1, child, enc2)
             ELSE enc2                             \* if not tree_ptr: break
    ELSE enc

\* The encoder's working state at the top of the outer loop.
EncStart ==
    [pos |-> 0, last_backtrack_pos |-> 0, output |-> <<>>, unmatched |-> <<>>,
     backtrack_buff |-> <<>>, enc_buf |-> <<>>]

\* Unmerge with the backtrack marker moved to pos.
CommitAtPos(st) ==
    [st EXCEPT !.output = st.output \o st.backtrack_buff \o st.enc_buf,
               !.backtrack_buff = <<>>,
               !.last_backtrack_pos = st.pos,
               !.enc_buf = <<>>]

\* Unmerge that leaves the backtrack marker where it was.
CommitKeepsMarker(st) ==
    [st EXCEPT !.output = st.output \o st.backtrack_buff \o st.enc_buf,
               !.backtrack_buff = <<>>,
               !.enc_buf = <<>>]

\* Unmerge: flush the encoded bytes, the backtrack marker moves to pos - 1.
Commit(st) ==
    [st EXCEPT !.output = st.output \o st.backtrack_buff \o st.enc_buf,
               !.backtrack_buff = <<>>,
               !.last_backtrack_pos = st.pos - 1,
               !.enc_buf = <<>>]

\* Merge with the span taken one character after the backtrack marker.
MergeAfterMarker(input_str, st) ==
    [st EXCEPT !.backtrack_buff = <<>>,
               !.unmatched = Slice(input_str, st.last_backtrack_pos + 1, st.pos),
               !.enc_buf = <<>>]

\* Merge that leaves backtrack_buff as it is.
MergeKeepsBuffer(input_str, st) ==
    [st EXCEPT !.unmatched = Slice(input_str, st.last_backtrack_pos, st.pos),
               !.enc_buf = <<>>]

\* Merge: the span since the backtrack marker becomes raw text again.
Merge(input_str, st) ==
    [st EXCEPT !.backtrack_buff = <<>>,
               !.unmatched = Slice(input_str, st.last_backtrack_pos, st.pos),
               !.enc_buf = <<>>]

\* Defer that moves the unmatched characters wherever pos is.
DeferMovesUnmatched(input_str, st) ==
    [st EXCEPT !.backtrack_buff = st.backtrack_buff \o st.enc_buf
                                     \o _encapsulate_list(st.unmatched),
               !.unmatched = <<>>,
               !.enc_buf = <<>>]

\* Gains of two bytes or less: the backtrack marker stays.
Defer(input_str, st) ==
    LET buff == st.backtrack_buff \o st.enc_buf
    IN  IF Len(input_str) = st.pos
        THEN [st EXCEPT !.backtrack_buff = buff \o _encapsulate_list(st.unmatched),
                        !.unmatched = <<>>,
                        !.enc_buf = <<>>]
        ELSE [st EXCEPT !.backtrack_buff = buff, !.enc_buf = <<>>]

\* The decision with the merge test turned round: merges when merging is dearer.
BacktrackDearer(input_str, backtracking, backtrack_limit, st) ==
    LET merge_len == _worst_size(st.pos - st.last_backtrack_pos)
        unmerge_len == Len(st.backtrack_buff) + Len(st.enc_buf)
                          + _worst_size(Len(st.unmatched))
    IN  IF \/ merge_len > unmerge_len + 2
           \/ st.pos - st.last_backtrack_pos > backtrack_limit
           \/ ~backtracking
        THEN Commit(st)
        ELSE IF merge_len > unmerge_len
             THEN Merge(input_str, st)
             ELSE Defer(input_str, st)

\* The decision without the test of the span against backtrack_limit.
BacktrackNoLimit(input_str, backtracking, backtrack_limit, st) ==
    LET merge_len == _worst_size(st.pos - st.last_backtrack_pos)
        unmerge_len == Len(st.backtrack_buff) + Len(st.enc_buf)
                          + _worst_size(Len(st.unmatched))
    IN  IF merge_len > unmerge_len + 2 \/ ~backtracking
        THEN Commit(st)
        ELSE IF merge_len < unmerge_len
             THEN Merge(input_str, st)
             ELSE Defer(input_str, st)

\* The backtracking decision, taken on a mode switch or at the end of the string;
\* st already holds the unmatched character and the advanced pos.
Backtrack(input_str, backtracking, backtrack_limit, st) ==
    LET merge_len == _worst_size(st.pos - st.last_backtrack_pos)
        unmerge_len == Len(st.backtrack_buff) + Len(st.enc_buf)
                          + _worst_size(Len(st.unmatched))
    IN  IF \/ merge_len > unmerge_len + 2
           \/ st.pos - st.last_backtrack_pos > backtrack_limit
           \/ ~backtracking
        THEN Commit(st)
        ELSE IF merge_len < unmerge_len
             THEN Merge(input_str, st)
             ELSE Defer(input_str, st)

\* The unmatched character kept as seven bits.
ConsumeSevenBits(input_str, st) ==
    [st EXCEPT !.unmatched = Append(st.unmatched, At(input_str, st.pos) % 128),
               !.pos = st.pos + 1]

\* enc_byte is None: the character joins the unmatched list.
Consume(input_str, st) ==
    [st EXCEPT !.unmatched = Append(st.unmatched, At(input_str, st.pos)),
               !.pos = st.pos + 1]

\* if len(enc_buf) > 0 or input_str_len == pos: mode switch or end of string
ModeSwitch(input_str, st) == Len(st.enc_buf) > 0 \/ Len(input_str) = st.pos

\* The branch for an unmatched character, with its backtracking decision.
Unmatched(input_str, backtracking, backtrack_limit, st) ==
    LET st1 == Consume(input_str, st)
    IN  IF ModeSwitch(input_str, st1)
        THEN Backtrack(input_str, backtracking, backtrack_limit, st1)
        ELSE st1

\* A match that forgets the unmatched characters before it.
MatchedDropsUnmatched(enc, st) ==
    [st EXCEPT !.pos = st.pos + enc.enc_len,
               !.enc_buf = Append(st.enc_buf, enc.enc_byte),
               !.unmatched = <<>>]

\* A match in the tree: advance by the number of characters matched.
Matched(enc, st) ==
    LET st1 == [st EXCEPT !.pos = st.pos + enc.enc_len,
                          !.enc_buf = Append(st.enc_buf, enc.enc_byte)]
    IN  IF st.unmatched # <<>>
        THEN [st1 EXCEPT !.backtrack_buff =
                            st.backtrack_buff \o _encapsulate_list(st.unmatched),
                         !.unmatched = <<>>]
        ELSE st1

\* One iteration of compress's outer loop.
CompressIter(input_str, tree, backtracking, backtrack_limit, st) ==
    LET enc == Search(tree, input_str, st.pos, 0, <<>>, NoMatch)
    IN  IF enc.enc_byte = None
        THEN Unmatched(input_str, backtracking, backtrack_limit, st)
        ELSE Matched(enc, st)

RECURSIVE CompressLoop(_, _, _, _, _)
\* while pos < input_str_len
CompressLoop(input_str, tree, backtracking, backtrack_limit, st) ==
    IF st.pos < Len(input_str)
    THEN CompressLoop(input_str, tree, backtracking, backtrack_limit,
                      CompressIter(input_str, tree, backtracking, backtrack_limit, st))
    ELSE st

\* The last flush without the pathological case detection.
CompressFinishUnchecked(input_str, pathological_case_detection, st) ==
    st.output \o st.backtrack_buff \o _encapsulate_list(st.unmatched) \o st.enc_buf

\* After the loop: the last flush and the pathological case detection.
CompressFinish(input_str, pathological_case_detection, st) ==
    LET output == st.output \o st.backtrack_buff
                     \o _encapsulate_list(st.unmatched) \o st.enc_buf
    IN  IF pathological_case_detection /\ Len(output) > _worst_size(Len(input_str))
        THEN _encapsulate(input_str)
        ELSE output

\* tree_ptr[ord(ch)] on a dict whose keys are characters: no key is an int.
RaiseKeyError == [kind |-> "KeyError", value |-> <<>>]

\* opt holds the keyword arguments check_ascii, raise_on_error, backtracking,
\* pathological_case_detection and backtrack_limit; compression_tree is a tree,
\* <<>> for None.
compress(input_str, opt, compression_tree) ==
    IF input_str = <<>>
    THEN Ok(input_str)
    ELSE IF opt.check_ascii /\ ~_check_ascii(input_str)
         THEN IF opt.raise_on_error THEN RaiseValueError ELSE ReturnNone
         ELSE LET tree == IF compression_tree = <<>> THEN SMAZ_TREE
                                                     ELSE compression_tree
              IN  IF tree.container = "dict"
                  THEN RaiseKeyError          \* at the first look-up of the search
                  ELSE Ok(CompressFinish(input_str, opt.pathological_case_detection,
                             CompressLoop(input_str, tree, opt.backtracking,
                                          opt.backtrack_limit, EncStart)))

compress_no_backtracking(input_str) ==
    compress(input_str,
             [check_ascii |-> FALSE, raise_on_error |-> TRUE, backtracking |-> FALSE,
              pathological_case_detection |-> FALSE, backtrack_limit |-> BACKTRACK_LIMIT],
             <<>>)

\* An iteration that puts the code before the unmatched characters it follows.
ClassicIterCodeFirst(input_str, tree, st) ==
    LET enc == Search(tree, input_str, st.pos, 0, <<>>, NoMatch)
    IN  IF enc.enc_byte = None
        THEN [st EXCEPT !.unmatched = Append(st.unmatched, At(input_str, st.pos)),
                        !.pos = st.pos + 1]
        ELSE [st EXCEPT !.pos = st.pos + enc.enc_len,
                        !.output = st.output \o <<enc.enc_byte>>
                                      \o _encapsulate_list(st.unmatched),
                        !.unmatched = <<>>]

\* One iteration of compress_classic's outer loop; st holds pos, output,
\* unmatched, tree is the module's SMAZ_TREE.
ClassicIter(input_str, tree, st) ==
    LET enc == Search(tree, input_str, st.pos, 0, <<>>, NoMatch)
    IN  IF enc.enc_byte = None
        THEN [st EXCEPT !.unmatched = Append(st.unmatched, At(input_str, st.pos)),
                        !.pos = st.pos + 1]
        ELSE [st EXCEPT !.pos = st.pos + enc.enc_len,
                        !.output = (IF st.unmatched # <<>>
                                    THEN st.output \o _encapsulate_list(st.unmatched)
                                    ELSE st.output) \o <<enc.enc_byte>>,
                        !.unmatched = <<>>]

RECURSIVE ClassicLoop(_, _)
ClassicLoop(input_str, st) ==
    IF st.pos < Len(input_str)
    THEN ClassicLoop(input_str, ClassicIter(input_str, SMAZ_TREE, st))
    ELSE st

compress_classic(input_str, pathological_case_detection) ==
    IF input_str = <<>>
    THEN Ok(input_str)
    ELSE LET st == ClassicLoop(input_str, EncStart)
             output == IF st.unmatched # <<>>
                       THEN st.output \o _encapsulate_list(st.unmatched)
                       ELSE st.output
         IN  IF pathological_case_detection /\ Len(output) > _worst_size(Len(input_str))
             THEN Ok(_encapsulate(input_str))
             ELSE Ok(output)

\* ------------------------------------------------------------------------
\* The decoder
\* ------------------------------------------------------------------------
RaiseIndexError == [kind |-> "IndexError", value |-> <<>>]

RECURSIVE DecompressLoopUnchecked(_, _, _, _)
\* The loop without the buffer overflow test: a slice past the end of the
\* string is just shorter.
DecompressLoopUnchecked(input_str, decompress_table, pos, output) ==
    IF pos < Len(input_str)
    THEN LET ch == At(input_str, pos)
         IN  IF ch < 254
             THEN IF ch < Len(decompress_table)
                  THEN DecompressLoopUnchecked(input_str, decompress_table, pos + 1,
                                               output \o At(decompress_table, ch))
                  ELSE RaiseIndexError
             ELSE IF pos + 1 >= Len(input_str)
                  THEN RaiseIndexError
                  ELSE LET next_byte == At(input_str, pos + 1)
                           end_pos == pos + 2 + next_byte + 1
                       IN  IF 254 = ch
                           THEN DecompressLoopUnchecked(input_str, decompress_table,
                                                        pos + 2, Append(output, next_byte))
                           ELSE DecompressLoopUnchecked(input_str, decompress_table,
                                    end_pos, output \o Slice(input_str, pos + 2, end_pos))
    ELSE Ok(output)

RECURSIVE DecompressLoopLenient(_, _, _, _)
\* The loop that stops quietly at a tag with no byte after it.
DecompressLoopLenient(input_str, decompress_table, pos, output) ==
    IF pos < Len(input_str)
    THEN LET ch == At(input_str, pos)
         IN  IF ch < 254
             THEN IF ch < Len(decompress_table)
                  THEN DecompressLoopLenient(input_str, decompress_table, pos + 1,
                                             output \o At(decompress_table, ch))
                  ELSE RaiseIndexError
             ELSE IF pos + 1 >= Len(input_str)
                  THEN Ok(output)
                  ELSE LET next_byte == At(input_str, pos + 1)
                           end_pos == pos + 2 + next_byte + 1
                       IN  IF 254 = ch
                           THEN DecompressLoopLenient(input_str, decompress_table,
                                                      pos + 2, Append(output, next_byte))
                           ELSE IF end_pos > Len(input_str)
                                THEN RaiseValueError
                                ELSE DecompressLoopLenient(input_str, decompress_table,
                                        end_pos, output \o Slice(input_str, pos + 2, end_pos))
    ELSE Ok(output)

RECURSIVE DecompressLoopShortRun(_, _, _, _)
\* The loop with a run of next_byte bytes where the code takes next_byte + 1.
DecompressLoopShortRun(input_str, decompress_table, pos, output) ==
    IF pos < Len(input_str)
    THEN LET ch == At(input_str, pos)
         IN  IF ch < 254
             THEN IF ch < Len(decompress_table)
                  THEN DecompressLoopShortRun(input_str, decompress_table, pos + 1,
                                              output \o At(decompress_table, ch))
                  ELSE RaiseIndexError
             ELSE IF pos + 1 >= Len(input_str)
                  THEN RaiseIndexError
                  ELSE LET next_byte == At(input_str, pos + 1)
                           end_pos == pos + 2 + next_byte
                       IN  IF 254 = ch
                           THEN DecompressLoopShortRun(input_str, decompress_table,
                                                       pos + 2, Append(output, next_byte))
                           ELSE IF end_pos > Len(input_str)
                                THEN RaiseValueError
                                ELSE DecompressLoopShortRun(input_str, decompress_table,
                                        end_pos,
                                        output \o Slice(input_str, pos + 2, end_pos))
    ELSE Ok(output)

RECURSIVE DecompressLoop(_, _, _, _)
\* The while loop inside the try block: the output, or the exception raised.
DecompressLoop(input_str, decompress_table, pos, output) ==
    IF pos < Len(input_str)
    THEN LET ch == At(input_str, pos)
         IN  IF ch < 254
             THEN IF ch < Len(decompress_table)
                  THEN DecompressLoop(input_str, decompress_table, pos + 1,
                                      output \o At(decompress_table, ch))
                  ELSE RaiseIndexError                    \* decompress_table[ch]
             ELSE IF pos + 1 >= Len(input_str)
                  THEN RaiseIndexError                    \* input_str[pos]
                  ELSE LET next_byte == At(input_str, pos + 1)
                           end_pos == pos + 2 + next_byte + 1
                       IN  IF 254 = ch
                           THEN DecompressLoop(input_str, decompress_table, pos + 2,
                                               Append(output, next_byte))
                           ELSE IF end_pos > Len(input_str)
                                THEN RaiseValueError
                                ELSE DecompressLoop(input_str, decompress_table, end_pos,
                                        output \o Slice(input_str, pos + 2, end_pos))
    ELSE Ok(output)

\* decompress that checks the output for ASCII whatever check_ascii says.
decompress_always_checks(input_str, raise_on_error, check_ascii, decompress_table) ==
    IF input_str = <<>>
    THEN Ok(input_str)
    ELSE LET table == IF decompress_table = <<>> THEN DECODE ELSE decompress_table
             r == DecompressLoop(input_str, table, 0, <<>>)
             failed == r.kind # "ok" \/ ~_check_ascii(r.value)
         IN  IF failed
             THEN IF raise_on_error THEN RaiseValueError ELSE ReturnNone
             ELSE r

\* decompress_table is a table, <<>> for None.
decompress(input_str, raise_on_error, check_ascii, decompress_table) ==
    IF input_str = <<>>
    THEN Ok(input_str)
    ELSE LET table == IF decompress_table = <<>> THEN DECODE ELSE decompress_table
             r == DecompressLoop(input_str, table, 0, <<>>)
             failed == \/ r.kind # "ok"
                       \/ check_ascii /\ ~_check_ascii(r.value)
         IN  IF failed
             THEN IF raise_on_error THEN RaiseValueError ELSE ReturnNone
             ELSE r

\* The locals of decompress at the top of its loop; error is the exception
\* an iteration raised, "" for none.
DecStart == [pos |-> 0, output |-> <<>>, error |-> ""]

\* An iteration that leaves pos on the 254 it has just read.
DecompressIterStuck(input_str, decompress_table, d) ==
    LET ch == At(input_str, d.pos)
        next_byte == At(input_str, d.pos + 1)
        end_pos == d.pos + 2 + next_byte + 1
    IN  IF ch < 254
        THEN IF ch < Len(decompress_table)
             THEN [d EXCEPT !.pos = d.pos + 1,
                            !.output = d.output \o At(decompress_table, ch)]
             ELSE [d EXCEPT !.error = "IndexError"]
        ELSE IF d.pos + 1 >= Len(input_str)
             THEN [d EXCEPT !.error = "IndexError"]
             ELSE IF 254 = ch
                  THEN [d EXCEPT !.output = Append(d.output, next_byte)]
                  ELSE IF end_pos > Len(input_str)
                       THEN [d EXCEPT !.error = "ValueError"]
                       ELSE [d EXCEPT !.pos = end_pos,
                                      !.output = d.output
                                          \o Slice(input_str, d.pos + 2, end_pos)]

\* One iteration of decompress's while pos < input_str_len.
DecompressIter(input_str, decompress_table, d) ==
    LET ch == At(input_str, d.pos)
        next_byte == At(input_str, d.pos + 1)
        end_pos == d.pos + 2 + next_byte + 1
    IN  IF ch < 254
        THEN IF ch < Len(decompress_table)
             THEN [d EXCEPT !.pos = d.pos + 1,
                            !.output = d.output \o At(decompress_table, ch)]
             ELSE [d EXCEPT !.error = "IndexError"]      \* decompress_table[ch]
        ELSE IF d.pos + 1 >= Len(input_str)
             THEN [d EXCEPT !.error = "IndexError"]      \* input_str[pos]
             ELSE IF 254 = ch
                  THEN [d EXCEPT !.pos = d.pos + 2,
                                 !.output = Append(d.output, next_byte)]
                  ELSE IF end_pos > Len(input_str)
                       THEN [d EXCEPT !.error = "ValueError"]
                       ELSE [d EXCEPT !.pos = end_pos,
                                      !.output = d.output
                                          \o Slice(input_str, d.pos + 2, end_pos)]

\* After the loop, or in the except clause: the check of the output and the
\* return.
DecompressFinish(d, raise_on_error, check_ascii) ==
    IF d.error # "" \/ (check_ascii /\ ~_check_ascii(d.output))
    THEN IF raise_on_error THEN RaiseValueError ELSE ReturnNone
    ELSE Ok(d.output)

\* ------------------------------------------------------------------------
\* The state: one text taken through an encoder and then the decoder, as the
\* test-suite's cycle does, or one byte stream handed to the decoder.
\* ------------------------------------------------------------------------
VARIABLES
    input_str,      \* the string handed to the encoder
    encoder,        \* the encoder called on it, "" before the call
    enc_args,       \* the keyword arguments of that call
    compressed,     \* its outcome; the stream handed to the decoder
    dec_args,       \* the keyword arguments of the decompress call
    decompressed,   \* the outcome of the decompress call
    pc,             \* "start", "built", "check", "loop", "backtrack",
                    \* "compressed", "decompressed"
    frame,          \* the locals of an encoder inside its loop, else <<>>
    custom_table,   \* the table a trie is built from, <<>> for none
    custom_tree,    \* the outcome of make_trie or make_tree on that table, with
                    \* the name of the one that built it
    shared,         \* the module's globals SMAZ_TREE and DECODE as concurrent
                    \* calls share them, <<>> when one call runs alone
    calls           \* the concurrent calls, one a thread: its function, its
                    \* arguments, its position and its locals

vars == <<input_str, encoder, enc_args, compressed, dec_args, decompressed, pc,
          frame, custom_table, custom_tree, shared, calls>>

Pending == [kind |-> "pending", value |-> <<>>]

\* Characters of the texts: "h" and "e" (table entries alone and as "he"), "@"
\* (in no entry) and a non-ASCII character.
Alphabet == {104, 101, 64, 200}
\* Texts of the test-suite (test_backtracking, test_expected_compression_results)
\* and of the comment on the pathological case detection.
TestTexts ==
    {<<116, 64>>,                                               \* 't@'
     <<112, 60, 55, 108>>,                                      \* 'p<7l'
     <<32, 33, 112>>,                                           \* ' !p'
     <<55, 110, 113, 100>>,                                     \* '7nqd'
     <<35, 101, 93, 52, 122>>,                                  \* '#e]4z'
     <<32, 42, 65, 39, 82, 116>>,                               \* " *A'Rt"
     <<116, 104, 101, 116, 104, 101, 116, 104, 101>>,           \* 'thethethe'
     <<116, 104, 101, 119, 104, 105, 99, 104>>,                 \* 'thewhich'
     <<49, 50, 51, 116, 104, 101, 119, 104, 105, 99, 104, 49, 50, 51>>,
                                                                \* '123thewhich123'
     <<110, 111, 116, 45, 97, 45, 103, 48, 48, 100, 45, 69, 120, 97, 109, 112,
       108, 51, 51, 51>>,                                       \* 'not-a-g00d-Exampl333'
     <<89, 32, 79, 70>>}                                        \* 'Y OF'
\* Bytes of the streams: two codes (short run lengths as well), an ASCII byte,
\* a non-ASCII byte and the two tags.
StreamBytes == {0, 1, 64, 200, 254, 255}
\* Bytes of the raw strings: an ASCII byte, a non-ASCII byte and the two tags.
RawBytes == {64, 200, 254, 255}

SeqsUpTo(S, n) == UNION {[1..k -> S] : k \in 0..n}
Repeat(pattern, n) == [i \in 1..n |-> pattern[((i - 1) % Len(pattern)) + 1]]
\* Short texts with the characters 254 and 255, the tags of the wire format.
HighTexts == SeqsUpTo({104, 254, 255}, 3)

CompressArgs ==
    [check_ascii : BOOLEAN, raise_on_error : BOOLEAN, backtracking : BOOLEAN,
     pathological_case_detection : BOOLEAN,
     backtrack_limit : {BACKTRACK_LIMIT, SmallLimit}]
ClassicArgs == [pathological_case_detection : BOOLEAN]
DecompressArgs ==
    [raise_on_error : BOOLEAN, check_ascii : BOOLEAN, decompress_table : {<<>>}]
DecompressDefaults ==
    [raise_on_error |-> TRUE, check_ascii |-> FALSE, decompress_table |-> <<>>]
\* Tables other than DECODE for the decoder: None (the default), a one-entry
\* table and a table whose entries are the tag bytes.
OtherTables == {<<>>, <<<<64>>>>, <<<<255>>, <<254, 255>>>>}

InitWith(texts) ==
    /\ input_str \in texts
    /\ encoder = ""
    /\ enc_args = <<>>
    /\ compressed = Pending
    /\ dec_args = <<>>
    /\ decompressed = Pending
    /\ pc = "start"
    /\ frame = <<>>
    /\ custom_table = <<>>
    /\ custom_tree = Pending
    /\ shared = <<>>
    /\ calls = <<>>

Encoded(name, args, outcome) ==
    /\ pc = "start"
    /\ encoder' = name
    /\ enc_args' = args
    /\ compressed' = outcome
    /\ pc' = "compressed"
    /\ UNCHANGED <<input_str, dec_args, decompressed, frame, custom_table, custom_tree,
                   shared, calls>>

\* compress(input_str, **args) with the built-in tree
Compress ==
    \E args \in CompressArgs :
        Encoded("compress", args, compress(input_str, args, <<>>))

\* compress_classic(input_str, **args)
CompressClassic ==
    \E args \in ClassicArgs :
        Encoded("compress_classic", args,
                compress_classic(input_str, args.pathological_case_detection))

\* compress_no_backtracking(input_str)
CompressNoBacktracking ==
    Encoded("compress_no_backtracking", <<>>, compress_no_backtracking(input_str))

\* _encapsulate(input_str)
Encapsulate ==
    Encoded("_encapsulate", <<>>, Ok(_encapsulate(input_str)))

\* "".join(_encapsulate_list(list(input_str)))
EncapsulateList ==
    Encoded("_encapsulate_list", <<>>, Ok(_encapsulate_list(input_str)))

\* decompress(compressed, **args) on the string an encoder returned
DecompressWith(args) ==
    /\ pc = "compressed"
    /\ compressed.kind = "ok"
    /\ dec_args' = args
    /\ decompressed' =
          decompress(compressed.value, args.raise_on_error, args.check_ascii,
                     args.decompress_table)
    /\ pc' = "decompressed"
    /\ UNCHANGED <<input_str, encoder, enc_args, compressed, frame, custom_table,
                   custom_tree,
                   shared, calls>>

Decompress == DecompressWith(DecompressDefaults)
DecompressAny == \E args \in DecompressArgs : DecompressWith(args)
DecompressTable ==
    \E t \in OtherTables : DecompressWith([DecompressDefaults EXCEPT !.decompress_table = t])

\* ------------------------------------------------------------------------
\* Custom dictionaries: a table, the tree built from it, a text through
\* compress with that tree and decompress with that table.
\* ------------------------------------------------------------------------
\* Entries of the small tables: the empty string, "a", its extension "ab", "b".
TableStrings == {<<>>, <<97>>, <<97, 98>>, <<98>>}
SmallTables == SeqsUpTo(TableStrings, MaxTableLen)
\* n distinct strings of two characters
BigTable(n) == [i \in 1..n |-> <<65 + ((i - 1) % 16), 65 + ((i - 1) \div 16)>>]
\* Tables at the limit of 254 entries: at it, at it with the first entry again
\* as the last, and above it.
BigTables ==
    {BigTable(254), [BigTable(254) EXCEPT ![254] = BigTable(254)[1]],
     BigTable(255), BigTable(257)}
\* Texts over "a", "b" and "@": the short ones, 'aab' and 'ab@a', and two made
\* of entries of the big tables.
TableTexts ==
    SeqsUpTo({97, 98, 64}, MaxTableTextLen)
        \cup {<<97, 97, 98>>, <<97, 98, 64, 97>>, <<78, 80>>, <<65, 65, 64, 78, 80>>}
\* The keyword arguments of the cycle: strict, with and without backtracking.
CustomArgs ==
    [check_ascii : {TRUE}, raise_on_error : {TRUE}, backtracking : BOOLEAN,
     pathological_case_detection : BOOLEAN, backtrack_limit : {BACKTRACK_LIMIT}]

Built(name, outcome) ==
    /\ pc = "start"
    /\ custom_tree' = [kind |-> outcome.kind, value |-> outcome.value, by |-> name]
    /\ pc' = "built"
    /\ UNCHANGED <<input_str, encoder, enc_args, compressed, dec_args, decompressed,
                   frame, custom_table,
                   shared, calls>>

\* make_trie(custom_table)
MakeTrie == Built("make_trie", make_trie(custom_table))

\* make_tree(custom_table)
MakeTree == Built("make_tree", make_tree(custom_table))

\* compress(text, compression_tree=custom_tree, **args)
CompressCustom ==
    /\ pc = "built"
    /\ custom_tree.kind = "ok"
    /\ \E text \in TableTexts, args \in CustomArgs :
          /\ input_str' = text
          /\ encoder' = "compress"
          /\ enc_args' = args
          /\ compressed' = compress(text, args, custom_tree.value)
    /\ pc' = "compressed"
    /\ UNCHANGED <<dec_args, decompressed, frame, custom_table, custom_tree,
                   shared, calls>>

\* decompress(compressed, decompress_table=custom_table)
DecompressCustom ==
    /\ custom_table # <<>>
    /\ DecompressWith([DecompressDefaults EXCEPT !.decompress_table = custom_table])

\* ------------------------------------------------------------------------
\* The encoders one step at a time: pc is the position of the call, frame its
\* locals.  A call tests its input for emptiness ("start"), compress validates
\* it ("check"), the outer loop runs one iteration a step ("loop"), in
\* compress with the backtracking decision as a step of its own ("backtrack"),
\* and the call returns ("compressed").
\* ------------------------------------------------------------------------
\* The entry of a call that goes on whatever the input is.
EnterNoEmptyTest(input, next_pc) == [pc |-> next_pc, compressed |-> Pending]

\* if not input_str: return input_str
Enter(input, next_pc) ==
    IF input = <<>>
    THEN [pc |-> "compressed", compressed |-> Ok(input)]
    ELSE [pc |-> next_pc, compressed |-> Pending]

\* if check_ascii and not _check_ascii(input_str): raise or return None
CheckInput(input, opt) ==
    IF opt.check_ascii /\ ~_check_ascii(input)
    THEN [pc |-> "compressed",
          compressed |-> IF opt.raise_on_error THEN RaiseValueError ELSE ReturnNone]
    ELSE [pc |-> "loop", compressed |-> Pending]

\* compression_tree = compression_tree or SMAZ_TREE
CurrentTree ==
    IF custom_tree.kind = "ok" THEN custom_tree.value ELSE SMAZ_TREE

Call(name, args, next_pc) ==
    /\ pc = "start"
    /\ encoder' = name
    /\ enc_args' = args
    /\ pc' = Enter(input_str, next_pc).pc
    /\ compressed' = Enter(input_str, next_pc).compressed
    /\ frame' = IF pc' = "loop" THEN EncStart ELSE frame
    /\ UNCHANGED <<input_str, dec_args, decompressed, custom_table, custom_tree,
                   shared, calls>>

\* compress(input_str, **args) is called
CompressCall == \E args \in CompressArgs : Call("compress", args, "check")

\* compress_classic(input_str, **args) is called
ClassicCall == \E args \in ClassicArgs : Call("compress_classic", args, "loop")

\* compress validates its input and sets up its locals
CompressCheck ==
    /\ pc = "check"
    /\ pc' = CheckInput(input_str, enc_args).pc
    /\ compressed' = CheckInput(input_str, enc_args).compressed
    /\ frame' = IF pc' = "loop" THEN EncStart ELSE frame
    /\ UNCHANGED <<input_str, encoder, enc_args, dec_args, decompressed, custom_table,
                   custom_tree,
                   shared, calls>>

\* one iteration of compress's while pos < input_str_len, up to the
\* backtracking decision: the search, and the match or the unmatched character
CompressStep ==
    /\ pc = "loop"
    /\ encoder = "compress"
    /\ frame.pos < Len(input_str)
    /\ LET enc == Search(CurrentTree, input_str, frame.pos, 0, <<>>, NoMatch)
       IN  IF enc.enc_byte = None
           THEN /\ frame' = Consume(input_str, frame)
                /\ pc' = IF ModeSwitch(input_str, frame') THEN "backtrack" ELSE "loop"
           ELSE /\ frame' = Matched(enc, frame)
                /\ pc' = "loop"
    /\ UNCHANGED <<input_str, encoder, enc_args, compressed, dec_args, decompressed,
                   custom_table, custom_tree,
                   shared, calls>>

\* the backtracking decision that ends such an iteration
CompressBacktrack ==
    /\ pc = "backtrack"
    /\ frame' = Backtrack(input_str, enc_args.backtracking, enc_args.backtrack_limit,
                          frame)
    /\ pc' = "loop"
    /\ UNCHANGED <<input_str, encoder, enc_args, compressed, dec_args, decompressed,
                   custom_table, custom_tree,
                   shared, calls>>

\* compress leaves its loop and returns
CompressReturn ==
    /\ pc = "loop"
    /\ encoder = "compress"
    /\ frame.pos >= Len(input_str)
    /\ compressed' =
          Ok(CompressFinish(input_str, enc_args.pathological_case_detection, frame))
    /\ pc' = "compressed"
    /\ UNCHANGED <<input_str, encoder, enc_args, dec_args, decompressed, frame,
                   custom_table, custom_tree,
                   shared, calls>>

\* one iteration of compress_classic's while pos < input_str_len
ClassicStep ==
    /\ pc = "loop"
    /\ encoder = "compress_classic"
    /\ frame.pos < Len(input_str)
    /\ frame' = ClassicIter(input_str, SMAZ_TREE, frame)
    /\ UNCHANGED <<input_str, encoder, enc_args, compressed, dec_args, decompressed,
                   pc, custom_table, custom_tree,
                   shared, calls>>

\* The return of compress_classic from the locals its loop left.
ClassicFinish(input, pathological_case_detection, s) ==
    LET output == IF s.unmatched # <<>>
                  THEN s.output \o _encapsulate_list(s.unmatched)
                  ELSE s.output
    IN  IF pathological_case_detection /\ Len(output) > _worst_size(Len(input))
        THEN _encapsulate(input)
        ELSE output

\* compress_classic leaves its loop and returns
ClassicReturn ==
    /\ pc = "loop"
    /\ encoder = "compress_classic"
    /\ frame.pos >= Len(input_str)
    /\ compressed' =
          Ok(ClassicFinish(input_str, enc_args.pathological_case_detection, frame))
    /\ pc' = "compressed"
    /\ UNCHANGED <<input_str, encoder, enc_args, dec_args, decompressed, frame,
                   custom_table, custom_tree,
                   shared, calls>>

\* ------------------------------------------------------------------------
\* Concurrent calls.  Each thread runs one call a step at a time; a step reads
\* the module's globals where the code reads SMAZ_TREE or DECODE and writes
\* the call's own locals.
\* ------------------------------------------------------------------------
Threads == 1..MaxThreads
cycle_vars ==
    <<input_str, encoder, enc_args, compressed, dec_args, decompressed, pc, frame,
      custom_table, custom_tree>>

CompressDefaults ==
    [check_ascii |-> TRUE, raise_on_error |-> TRUE, backtracking |-> TRUE,
     pathological_case_detection |-> TRUE, backtrack_limit |-> BACKTRACK_LIMIT]
\* 'he@' and '@@h@' to the encoders; the stream of 'he@', a run cut short and
\* the empty stream to the decoder.
ThreadTexts == {<<104, 101, 64>>, <<64, 64, 104, 64>>}
ThreadStreams == {<<16, 254, 64>>, <<255, 1, 64>>, <<>>}
ThreadJobs ==
    {[op |-> "compress", input_str |-> t, args |-> CompressDefaults] :
        t \in ThreadTexts}
    \cup {[op |-> "compress_classic", input_str |-> t,
           args |-> [pathological_case_detection |-> TRUE]] : t \in ThreadTexts}
    \cup {[op |-> "decompress", input_str |-> t, args |-> DecompressDefaults] :
            t \in ThreadStreams}

NewCall(job) ==
    [op |-> job.op, input_str |-> job.input_str, args |-> job.args,
     pc |-> "start", locals |-> <<>>, result |-> Pending]
Return(c, outcome) == [c EXCEPT !.pc = "returned", !.result = outcome]

\* One step of a call of compress with the default tree.
CompressCallStep(c, tree) ==
    IF c.pc = "start"
    THEN IF Enter(c.input_str, "check").pc = "check"
         THEN [c EXCEPT !.pc = "check"]
         ELSE Return(c, Enter(c.input_str, "check").compressed)
    ELSE IF c.pc = "check"
    THEN IF CheckInput(c.input_str, c.args).pc = "loop"
         THEN [c EXCEPT !.pc = "loop", !.locals = EncStart]
         ELSE Return(c, CheckInput(c.input_str, c.args).compressed)
    ELSE IF c.pc = "backtrack"
    THEN [c EXCEPT !.pc = "loop",
                   !.locals = Backtrack(c.input_str, c.args.backtracking,
                                        c.args.backtrack_limit, c.locals)]
    ELSE IF c.locals.pos < Len(c.input_str)
    THEN LET enc == Search(tree, c.input_str, c.locals.pos, 0, <<>>, NoMatch)
             consumed == Consume(c.input_str, c.locals)
         IN  IF enc.enc_byte = None
             THEN [c EXCEPT !.locals = consumed,
                            !.pc = IF ModeSwitch(c.input_str, consumed)
                                   THEN "backtrack" ELSE "loop"]
             ELSE [c EXCEPT !.locals = Matched(enc, c.locals)]
    ELSE Return(c, Ok(CompressFinish(c.input_str,
                                     c.args.pathological_case_detection, c.locals)))

\* One step of a call of compress_classic.
ClassicCallStep(c, tree) ==
    IF c.pc = "start"
    THEN IF Enter(c.input_str, "loop").pc = "loop"
         THEN [c EXCEPT !.pc = "loop", !.locals = EncStart]
         ELSE Return(c, Enter(c.input_str, "loop").compressed)
    ELSE IF c.locals.pos < Len(c.input_str)
    THEN [c EXCEPT !.locals = ClassicIter(c.input_str, tree, c.locals)]
    ELSE Return(c, Ok(ClassicFinish(c.input_str,
                                    c.args.pathological_case_detection, c.locals)))

\* One step of a call of decompress with the default table.
DecompressCallStep(c, table) ==
    IF c.pc = "start"
    THEN IF c.input_str = <<>>
         THEN Return(c, Ok(c.input_str))
         ELSE [c EXCEPT !.pc = "loop", !.locals = DecStart]
    ELSE IF c.locals.pos < Len(c.input_str) /\ c.locals.error = ""
    THEN [c EXCEPT !.locals = DecompressIter(c.input_str, table, c.locals)]
    ELSE Return(c, DecompressFinish(c.locals, c.args.raise_on_error,
                                    c.args.check_ascii))

CallStep(c, tree, table) ==
    IF c.op = "compress"
    THEN CompressCallStep(c, tree)
    ELSE IF c.op = "compress_classic"
         THEN ClassicCallStep(c, tree)
         ELSE DecompressCallStep(c, table)

\* The step of an encoder that stores the node it fell back on, for a
\* character the root table has no node for, in the table.
ThreadStepMemo(t) ==
    /\ calls[t].pc # "returned"
    /\ calls' = [calls EXCEPT ![t] = CallStep(calls[t], shared.SMAZ_TREE, shared.DECODE)]
    /\ shared' =
          IF /\ calls[t].op # "decompress"
             /\ calls[t].pc = "loop"
             /\ calls[t].locals.pos < Len(calls[t].input_str)
             /\ <<At(calls[t].input_str, calls[t].locals.pos)>>
                    \notin DOMAIN shared.SMAZ_TREE.nodes
          THEN [shared EXCEPT !.SMAZ_TREE.nodes =
                    @ @@ (<<At(calls[t].input_str, calls[t].locals.pos)>>
                            :> [byte |-> None, children |-> FALSE])]
          ELSE shared
    /\ UNCHANGED cycle_vars

\* Thread t runs the next step of its call.
ThreadStep(t) ==
    /\ calls[t].pc # "returned"
    /\ calls' = [calls EXCEPT ![t] = CallStep(calls[t], shared.SMAZ_TREE, shared.DECODE)]
    /\ UNCHANGED shared
    /\ UNCHANGED cycle_vars

\* The cycle of the test-suite: a text, an encoder, the decoder.
Texts == SeqsUpTo(Alphabet, MaxLen) \cup TestTexts \cup HighTexts
Init == InitWith(Texts)
Next == Compress \/ CompressClassic \/ CompressNoBacktracking \/ Decompress
Spec == Init /\ [][Next]_vars

\* Texts made of copies of one table entry.
EntryTexts ==
    {Repeat(DECODE[i], k * Len(DECODE[i])) : i \in 1..Len(DECODE), k \in 1..MaxCopies}
InitEntries == InitWith(EntryTexts)
SpecEntries == InitEntries /\ [][Next]_vars

\* Raw byte strings through _encapsulate: every short one, and long ones that
\* repeat a short pattern.
RawStrings ==
    SeqsUpTo(RawBytes, 2) \cup
    {Repeat(p, n) : p \in {<<64>>, <<255>>, <<254, 200>>}, n \in 0..MaxRawLen}
InitRaw == InitWith(RawStrings)
NextRaw == Encapsulate \/ EncapsulateList \/ DecompressTable
SpecRaw == InitRaw /\ [][NextRaw]_vars

\* The encoders step by step, on short texts and the test-suite's.
StepTexts == SeqsUpTo(Alphabet, MaxStepLen) \cup TestTexts
InitSteps == InitWith(StepTexts)
NextSteps ==
    \/ CompressCall
    \/ CompressCheck
    \/ CompressStep
    \/ CompressBacktrack
    \/ CompressReturn
    \/ ClassicCall
    \/ ClassicStep
    \/ ClassicReturn
    \/ DecompressAny
SpecSteps == InitSteps /\ [][NextSteps]_vars

\* The three functions that return a stream, the encoders a step at a time,
\* on texts around one chunk of 255 characters as well: '1' and the bytes
\* 254, 200 match nothing, alone or after the entry "the".
LongTexts ==
    {prefix \o Repeat(p, n) : prefix \in {<<>>, <<116, 104, 101>>},
                              p \in {<<49>>, <<254, 200>>},
                              n \in 254..LongTextLen}
InitWire == InitWith(StepTexts \cup LongTexts)
NextWire ==
    \/ CompressCall
    \/ CompressCheck
    \/ CompressStep
    \/ CompressBacktrack
    \/ CompressReturn
    \/ ClassicCall
    \/ ClassicStep
    \/ ClassicReturn
    \/ Encapsulate
SpecWire == InitWire /\ [][NextWire]_vars

\* compress a step at a time on texts that change mode at every character,
\* 'e1e1e1...', long enough for a span of more than BACKTRACK_LIMIT characters.
SwitchingTexts == {Repeat(<<101, 49>>, n) : n \in 254..LongTextLen}
InitLong == InitWith(TestTexts \cup SwitchingTexts)
NextLong ==
    \/ CompressCall
    \/ CompressCheck
    \/ CompressStep
    \/ CompressBacktrack
    \/ CompressReturn
SpecLong == InitLong /\ [][NextLong]_vars

\* ------------------------------------------------------------------------
\* decompress a step at a time on the string in compressed: the call with its
\* test for the empty string, one iteration of the loop ("decoding"), the
\* return from the loop or from the except clause.
\* ------------------------------------------------------------------------
\* decompress(compressed, **args) is called
DecompressCall ==
    /\ pc = "compressed"
    /\ compressed.kind = "ok"
    /\ \E args \in DecompressArgs : dec_args' = args
    /\ IF compressed.value = <<>>
       THEN /\ decompressed' = Ok(compressed.value)
            /\ pc' = "decompressed"
            /\ frame' = frame
       ELSE /\ decompressed' = Pending
            /\ pc' = "decoding"
            /\ frame' = DecStart
    /\ UNCHANGED <<input_str, encoder, enc_args, compressed, custom_table,
                   custom_tree, shared, calls>>

\* one iteration of decompress's while pos < input_str_len
DecompressStep ==
    /\ pc = "decoding"
    /\ frame.error = ""
    /\ frame.pos < Len(compressed.value)
    /\ frame' = DecompressIter(compressed.value, DECODE, frame)
    /\ UNCHANGED <<input_str, encoder, enc_args, compressed, dec_args, decompressed,
                   pc, custom_table, custom_tree, shared, calls>>

\* decompress leaves its loop, or its try block, and returns
DecompressReturn ==
    /\ pc = "decoding"
    /\ frame.error # "" \/ frame.pos >= Len(compressed.value)
    /\ decompressed' = DecompressFinish(frame, dec_args.raise_on_error,
                                        dec_args.check_ascii)
    /\ pc' = "decompressed"
    /\ UNCHANGED <<input_str, encoder, enc_args, compressed, dec_args, frame,
                   custom_table, custom_tree, shared, calls>>

\* Each function followed to its return: the encoders on a text, the decoder
\* on what they return and on any stream.  A call is synchronous: its next
\* step is always taken.
TermTexts == SeqsUpTo(Alphabet, MaxTermLen) \cup TestTexts
TermStreams ==
    SeqsUpTo(StreamBytes, MaxTermLen)
       \cup {<<255, 1, 254, 255>>, <<1, 255, 1, 254, 255>>, <<255, 2, 64, 64>>}
InitTerm ==
    \/ InitWith(TermTexts)
    \/ /\ input_str = <<>>
       /\ encoder = ""
       /\ enc_args = <<>>
       /\ compressed \in {Ok(t) : t \in TermStreams}
       /\ dec_args = <<>>
       /\ decompressed = Pending
       /\ pc = "compressed"
       /\ frame = <<>>
       /\ custom_table = <<>>
       /\ custom_tree = Pending
       /\ shared = <<>>
       /\ calls = <<>>
NextTerm ==
    \/ CompressCall
    \/ CompressCheck
    \/ CompressStep
    \/ CompressBacktrack
    \/ CompressReturn
    \/ ClassicCall
    \/ ClassicStep
    \/ ClassicReturn
    \/ DecompressCall
    \/ DecompressStep
    \/ DecompressReturn
SpecTerm == InitTerm /\ [][NextTerm]_vars /\ WF_vars(NextTerm)

\* A table, a tree built from it and a text through the cycle with them.
InitTables ==
    /\ input_str = <<>>
    /\ encoder = ""
    /\ enc_args = <<>>
    /\ compressed = Pending
    /\ dec_args = <<>>
    /\ decompressed = Pending
    /\ pc = "start"
    /\ frame = <<>>
    /\ custom_table \in SmallTables \cup BigTables \cup {DECODE}
    /\ custom_tree = Pending
    /\ shared = <<>>
    /\ calls = <<>>
NextTables == MakeTrie \/ MakeTree \/ CompressCustom \/ DecompressCustom
SpecTables == InitTables /\ [][NextTables]_vars

\* Concurrent calls of compress, compress_classic and decompress.
InitThreads ==
    /\ input_str = <<>>
    /\ encoder = ""
    /\ enc_args = <<>>
    /\ compressed = Pending
    /\ dec_args = <<>>
    /\ decompressed = Pending
    /\ pc = "start"
    /\ frame = <<>>
    /\ custom_table = <<>>
    /\ custom_tree = Pending
    /\ shared = [SMAZ_TREE |-> SMAZ_TREE, DECODE |-> DECODE]
    /\ calls \in [Threads -> {NewCall(job) : job \in ThreadJobs}]
NextThreads == \E t \in Threads : ThreadStep(t)
SpecThreads == InitThreads /\ [][NextThreads]_vars

\* Arbitrary byte streams handed to the decoder.
Streams == SeqsUpTo(StreamBytes, MaxStreamLen)
InitStreams ==
    /\ input_str = <<>>
    /\ encoder = ""
    /\ enc_args = <<>>
    /\ compressed \in {Ok(s) : s \in Streams}
    /\ dec_args = <<>>
    /\ decompressed = Pending
    /\ pc = "compressed"
    /\ frame = <<>>
    /\ custom_table = <<>>
    /\ custom_tree = Pending
    /\ shared = <<>>
    /\ calls = <<>>
NextStreams == DecompressAny
SpecStreams == InitStreams /\ [][NextStreams]_vars

\* ------------------------------------------------------------------------
\* Properties
\* ------------------------------------------------------------------------
IsAscii(s) == \A i \in 1..Len(s) : s[i] \in 0..127
Called(name) == pc # "start" /\ encoder = name
Returned == compressed.kind = "ok"

\* C1: Round trip.  For every ASCII text (the empty one included), whatever
\* the keyword arguments of the encoder, decompress of what compress (with or
\* without backtracking) or compress_classic returned is the text itself.
C1_RoundTrip ==
    (/\ pc = "decompressed"
     /\ encoder \in {"compress", "compress_classic"}
     /\ IsAscii(input_str))
        => decompressed = Ok(input_str)

\* A text whose middle "h" the backtracking encoder merged into one raw run,
\* decoded back.
C1_Witness ==
    /\ pc = "decompressed"
    /\ encoder = "compress"
    /\ enc_args.backtracking
    /\ input_str = <<64, 64, 104, 64, 64>>
    /\ compressed = Ok(<<255, 4, 64, 64, 104, 64, 64>>)
    /\ decompressed = Ok(input_str)

\* C2: Worst-case bound.  With pathological_case_detection enabled, what
\* compress and compress_classic return is never longer than
\* _worst_size(len(input_str)), whatever backtracking and backtrack_limit are.
C2_WorstCaseBound ==
    (/\ pc # "start"
     /\ encoder \in {"compress", "compress_classic"}
     /\ Returned
     /\ enc_args.pathological_case_detection)
        => Len(compressed.value) <= _worst_size(Len(input_str))

\* A call whose loop output outgrew the worst size, so that the whole text
\* was encapsulated instead.
C2_Witness ==
    /\ Called("compress")
    /\ Returned
    /\ enc_args.pathological_case_detection
    /\ Len(compress(input_str,
                    [enc_args EXCEPT !.pathological_case_detection = FALSE],
                    <<>>).value) > _worst_size(Len(input_str))
    /\ compressed.value = _encapsulate(input_str)

\* C3: Worst-size exactness.  For every raw string, the length of
\* _encapsulate(input_str) is exactly _worst_size(len(input_str)).
C3_WorstSizeExact ==
    Called("_encapsulate") => Len(compressed.value) = _worst_size(Len(input_str))

\* A string of two full chunks and a tail of one byte (511 = 2 * 255 + 1).
C3_Witness ==
    /\ Called("_encapsulate")
    /\ Len(input_str) = 511
    /\ Len(compressed.value) = 516

\* C4: Encapsulation round trip.  decompress of _encapsulate(input_str) is
\* input_str for every raw string, whichever table decompress is given.
C4_EncapsulateRoundTrip ==
    (pc = "decompressed" /\ encoder = "_encapsulate")
        => decompressed = Ok(input_str)

\* A string of tag bytes longer than one chunk, decoded with a table that is
\* not DECODE.
C4_Witness ==
    /\ pc = "decompressed"
    /\ encoder = "_encapsulate"
    /\ Len(input_str) = 256
    /\ input_str[1] = 255
    /\ dec_args.decompress_table = <<<<255>>, <<254, 255>>>>
    /\ decompressed = Ok(input_str)

\* C5: Backtracking monotonicity.  With the other keyword arguments equal,
\* compress with backtracking returns no more bytes than without.
C5_BacktrackingMonotone ==
    (Called("compress") /\ Returned /\ enc_args.backtracking)
        => Len(compressed.value)
              <= Len(compress(input_str, [enc_args EXCEPT !.backtracking = FALSE],
                              <<>>).value)

\* A text on which backtracking returns strictly fewer bytes.
C5_Witness ==
    /\ Called("compress")
    /\ Returned
    /\ enc_args.backtracking
    /\ Len(compressed.value)
          < Len(compress(input_str, [enc_args EXCEPT !.backtracking = FALSE],
                         <<>>).value)

\* The longest table entry that is a prefix of s from position pos on: its
\* length, 0 when no entry is.
Entries == {DECODE[i] : i \in 1..Len(DECODE)}
LongestEntryLen(s, pos) ==
    LET fits == {n \in 1..(Len(s) - pos) : Slice(s, pos, pos + n) \in Entries}
    IN  IF fits = {} THEN 0 ELSE CHOOSE n \in fits : \A m \in fits : m <= n
Copies(w, k) == Repeat(w, k * Len(w))
IndexOf(w) == (CHOOSE i \in 1..Len(DECODE) : DECODE[i] = w) - 1
\* The greedy parse of k copies of the entry w is those k entries.
GreedyIsCopies(w, k) ==
    \A m \in 0..(k - 1) : LongestEntryLen(Copies(w, k), m * Len(w)) = Len(w)

\* C6: Single-entry compression.  A text equal to the table entry of index i
\* compresses to the one byte i, and k copies of an entry whose greedy parse
\* is those k entries compress to k bytes, each of them i.
C6_SingleEntry ==
    Called("compress") =>
        \A k \in 1..MaxCopies :
            LET w == SubSeq(input_str, 1, Len(input_str) \div k)
            IN  (/\ w \in Entries
                 /\ input_str = Copies(w, k)
                 /\ GreedyIsCopies(w, k))
                    => compressed = Ok([n \in 1..k |-> IndexOf(w)])

\* 'thethethe' compressed to three bytes, each the index of "the".
C6_Witness ==
    /\ Called("compress")
    /\ input_str = Copies(<<116, 104, 101>>, 3)
    /\ GreedyIsCopies(<<116, 104, 101>>, 3)
    /\ compressed = Ok(<<1, 1, 1>>)

\* The tags of a stream read by the wire format from position pos on: a code
\* (byte below 254), a single literal (254 and one byte), a literal run (255,
\* a length byte L and L + 1 bytes).  The reading ends at a tag that is cut
\* short: missing says what it lacks.
RECURSIVE WireTags(_, _)
WireTags(s, pos) ==
    IF pos >= Len(s)
    THEN <<>>
    ELSE LET t == At(s, pos)
             run_end == pos + 2 + At(s, pos + 1) + 1
             Tag(payload, missing) ==
                <<[tag |-> t, payload |-> payload, missing |-> missing]>>
         IN  IF t < 254
             THEN Tag(<<>>, "") \o WireTags(s, pos + 1)
             ELSE IF pos + 1 >= Len(s)
                  THEN Tag(<<>>, "byte")
                  ELSE IF t = 254
                       THEN Tag(<<At(s, pos + 1)>>, "") \o WireTags(s, pos + 2)
                       ELSE IF run_end > Len(s)
                            THEN Tag(<<>>, "run")
                            ELSE Tag(Slice(s, pos + 2, run_end), "")
                                    \o WireTags(s, run_end)
RECURSIVE Flatten(_)
Flatten(ss) == IF ss = <<>> THEN <<>> ELSE Head(ss) \o Flatten(Tail(ss))
WellFormed(s) == \A n \in 1..Len(WireTags(s, 0)) : WireTags(s, 0)[n].missing = ""
LiteralPayload(s) ==
    Flatten([n \in 1..Len(WireTags(s, 0)) |-> WireTags(s, 0)[n].payload])
WireText(s) ==
    Flatten([n \in 1..Len(WireTags(s, 0)) |->
                LET t == WireTags(s, 0)[n]
                IN  IF t.tag < 254 THEN DECODE[t.tag + 1] ELSE t.payload])
Failure == IF dec_args.raise_on_error THEN RaiseValueError ELSE ReturnNone

\* C7: Malformed run rejection.  On a stream in which a tag 255 with length
\* byte L has fewer than L + 1 bytes after it, decompress raises when
\* raise_on_error is set and returns None otherwise: never a decoded string.
C7_MalformedRun ==
    (/\ pc = "decompressed"
     /\ \E n \in 1..Len(WireTags(compressed.value, 0)) :
            /\ WireTags(compressed.value, 0)[n].tag = 255
            /\ WireTags(compressed.value, 0)[n].missing = "run")
        => decompressed = Failure

\* A run cut short after a literal, with raise_on_error off: None.
C7_Witness ==
    /\ pc = "decompressed"
    /\ compressed.value = <<254, 64, 255, 1, 64>>
    /\ ~dec_args.raise_on_error
    /\ decompressed = ReturnNone

\* C8: Truncated tag rejection.  On a stream whose last byte is a tag 254 or
\* 255 with no byte after it, decompress raises or returns None.
C8_TruncatedTag ==
    (/\ pc = "decompressed"
     /\ \E n \in 1..Len(WireTags(compressed.value, 0)) :
            /\ WireTags(compressed.value, 0)[n].tag \in {254, 255}
            /\ WireTags(compressed.value, 0)[n].missing = "byte")
        => decompressed = Failure

\* A tag 254 at the very end, after a complete run, with raise_on_error on.
C8_Witness ==
    /\ pc = "decompressed"
    /\ compressed.value = <<255, 0, 255, 254>>
    /\ dec_args.raise_on_error
    /\ decompressed = RaiseValueError

\* C9: Non-ASCII passthrough on decode.  On a well-formed stream whose literal
\* payload holds bytes of 128 and more, decompress with check_ascii off
\* returns the text of the stream, those bytes verbatim; with check_ascii on
\* it raises or returns None.
C9_NonAsciiPassthrough ==
    (/\ pc = "decompressed"
     /\ WellFormed(compressed.value)
     /\ ~IsAscii(LiteralPayload(compressed.value)))
        => IF dec_args.check_ascii
           THEN decompressed = Failure
           ELSE decompressed = Ok(WireText(compressed.value))

\* The run of two bytes 200 of the test-suite, returned as it is.
C9_Witness ==
    /\ pc = "decompressed"
    /\ compressed.value = <<255, 1, 200, 200>>
    /\ ~dec_args.check_ascii
    /\ decompressed = Ok(<<200, 200>>)

\* C10: Encoder ASCII validation.  compress with check_ascii on a text that
\* holds a character of 128 or more returns no stream: it raises when
\* raise_on_error is set and returns None otherwise.  A text of characters
\* below 128 only is always accepted.
C10_EncoderAsciiValidation ==
    Called("compress") =>
        /\ (enc_args.check_ascii /\ ~IsAscii(input_str))
              => compressed = IF enc_args.raise_on_error THEN RaiseValueError
                                                         ELSE ReturnNone
        /\ IsAscii(input_str) => Returned

\* A text with a non-ASCII character in the middle, refused with None.
C10_Witness ==
    /\ Called("compress")
    /\ enc_args.check_ascii
    /\ ~enc_args.raise_on_error
    /\ input_str = <<104, 200, 101>>
    /\ compressed = ReturnNone

\* C11: Empty input.  compress and compress_classic called on the empty string
\* return it in their first step, whatever their keyword arguments: the call
\* never reaches the ASCII validation ("check"), the loop over the trie
\* ("loop") or the return after it, where the pathological case is detected.
\* decompress of the empty string returns it under every keyword argument.
C11_EmptyInput ==
    [][/\ (pc = "start" /\ input_str = <<>>)
            => (pc' = "compressed" /\ compressed' = Ok(<<>>) /\ frame' = <<>>)
       /\ (pc = "compressed" /\ compressed = Ok(<<>>))
            => (pc' = "decompressed" /\ decompressed' = Ok(<<>>))]_vars

\* The empty string through compress with every check switched on, then
\* through decompress with check_ascii on: no locals were ever set up.
C11_Witness ==
    /\ pc = "decompressed"
    /\ encoder = "compress"
    /\ input_str = <<>>
    /\ enc_args.check_ascii
    /\ enc_args.pathological_case_detection
    /\ frame = <<>>
    /\ compressed = Ok(<<>>)
    /\ dec_args.check_ascii
    /\ decompressed = Ok(<<>>)

\* A table in which the same string occurs at two indices.
HasDuplicate(T) == \E i, j \in 1..Len(T) : i < j /\ T[i] = T[j]
NonEmptyEntries(T) == \A i \in 1..Len(T) : T[i] # <<>>

\* C12: Dictionary construction validation.  make_trie and make_tree raise
\* ValueError on an empty table, on a table of more than 254 entries and on a
\* table in which the same string occurs twice; they accept a table of 1 to
\* 254 distinct non-empty strings.
C12_ConstructionValidation ==
    pc = "built" =>
        /\ (\/ custom_table = <<>>
            \/ Len(custom_table) > 254
            \/ HasDuplicate(custom_table))
              => custom_tree.kind = "ValueError"
        /\ (/\ Len(custom_table) \in 1..254
            /\ ~HasDuplicate(custom_table)
            /\ NonEmptyEntries(custom_table))
              => custom_tree.kind = "ok"

\* The encoder was called without ASCII validation.
Unvalidated ==
    \/ encoder = "compress" /\ ~enc_args.check_ascii
    \/ encoder \in {"compress_classic", "compress_no_backtracking"}

\* C13: Round trip under every option combination.  A text of 8-bit
\* characters, those of 128..255 included, handed to compress with
\* check_ascii off (whatever backtracking, pathological_case_detection and
\* backtrack_limit are), to compress_no_backtracking or to compress_classic
\* (with or without pathological_case_detection) gives a stream, and
\* decompress of that stream is the text.
C13_RoundTripAllOptions ==
    /\ (pc # "start" /\ Unvalidated) => Returned
    /\ (pc = "decompressed" /\ Unvalidated) => decompressed = Ok(input_str)

\* A text with a non-ASCII character between two table entries, through
\* compress_no_backtracking and back.
C13_Witness ==
    /\ pc = "decompressed"
    /\ encoder = "compress_no_backtracking"
    /\ input_str = <<104, 200, 101>>
    /\ compressed = Ok(<<18, 254, 200, 2>>)
    /\ decompressed = Ok(input_str)

\* The tree handed to compress came from make_trie.
TrieBuilt == custom_tree.kind = "ok" /\ custom_tree.value.container = "list"

\* C14: Custom dictionary round trip.  For a table of 1 to 254 distinct
\* strings, a text compressed with the tree make_trie built from the table
\* and decompressed with the table as decompress_table is the text again:
\* the codes of the stream are indices into the table.
C14_CustomRoundTrip ==
    (/\ TrieBuilt
     /\ Len(custom_table) \in 1..254
     /\ ~HasDuplicate(custom_table))
        => /\ pc \in {"compressed", "decompressed"} => Returned
           /\ pc = "decompressed" => decompressed = Ok(input_str)

\* "aab" with the table ["b", "ab", "a"]: the codes 2 and 1, decoded back.
C14_Witness ==
    /\ pc = "decompressed"
    /\ TrieBuilt
    /\ custom_table = <<<<98>>, <<97, 98>>, <<97>>>>
    /\ input_str = <<97, 97, 98>>
    /\ compressed = Ok(<<2, 1>>)
    /\ decompressed = Ok(input_str)

\* What a call returns when it runs alone.
Alone(c) ==
    IF c.op = "compress"
    THEN compress(c.input_str, c.args, <<>>)
    ELSE IF c.op = "compress_classic"
         THEN compress_classic(c.input_str, c.args.pathological_case_detection)
         ELSE decompress(c.input_str, c.args.raise_on_error, c.args.check_ascii,
                         c.args.decompress_table)

\* C15: Shared read-only dictionary.  Under every interleaving of concurrent
\* calls of compress, compress_classic and decompress, SMAZ_TREE and DECODE
\* stay what they were when the module was loaded, and every call that has
\* returned has returned what it returns alone.
C15_SharedReadOnly ==
    /\ shared = [SMAZ_TREE |-> SMAZ_TREE, DECODE |-> DECODE]
    /\ \A t \in Threads :
          calls[t].pc = "returned" => calls[t].result = Alone(calls[t])

\* A decompress that has returned its text while a compress on another
\* thread is inside its loop, at a backtracking decision.
C15_Witness ==
    \E t, u \in Threads :
        /\ calls[t].op = "compress"
        /\ calls[t].pc = "backtrack"
        /\ calls[u].op = "decompress"
        /\ calls[u].pc = "returned"
        /\ calls[u].result = Ok(<<104, 101, 64>>)

\* C16: Tree builder agreement.  The tree make_tree returns for DECODE is
\* equal to SMAZ_TREE, the one make_trie built from DECODE when the module
\* was loaded.
C16_BuildersAgree ==
    (/\ pc = "built"
     /\ custom_tree.by = "make_tree"
     /\ custom_table = DECODE)
        => custom_tree.kind = "ok" /\ custom_tree.value = SMAZ_TREE

\* C17: Greedy longest match.  An iteration of the loop of compress or of
\* compress_classic at the cursor pos takes the longest table entry that is a
\* prefix of input_str[pos:], emits its code and advances pos by its length;
\* when no entry is a prefix, the one character input_str[pos] joins unmatched
\* and pos advances by 1.
C17_GreedyLongestMatch ==
    [][(pc = "loop" /\ frame.pos < Len(input_str)) =>
          LET n == LongestEntryLen(input_str, frame.pos)
              code == IndexOf(Slice(input_str, frame.pos, frame.pos + n))
              flushed == IF frame.unmatched # <<>>
                         THEN frame.output \o _encapsulate_list(frame.unmatched)
                         ELSE frame.output
          IN  IF n > 0
              THEN /\ frame'.pos = frame.pos + n
                   /\ IF encoder = "compress"
                      THEN frame'.enc_buf = Append(frame.enc_buf, code)
                      ELSE frame'.output = Append(flushed, code)
              ELSE /\ frame'.pos = frame.pos + 1
                   /\ frame'.unmatched =
                          Append(frame.unmatched, At(input_str, frame.pos))]_vars

\* 'he@' in compress: "he" was taken at 0, not the entry "h" met first on the
\* walk, and "@", a prefix of no entry, went to unmatched.
C17_Witness ==
    /\ encoder = "compress"
    /\ pc = "backtrack"
    /\ input_str = <<104, 101, 64>>
    /\ frame.pos = 3
    /\ frame.enc_buf = <<16>>
    /\ frame.unmatched = <<64>>

\* The strings walked in a tree: the paths of its nodes, the entries of its
\* table and every short string over "a" and "b".
Walks(T, nodes) ==
    (DOMAIN nodes \cup {T[i] : i \in 1..Len(T)} \cup SeqsUpTo({97, 98}, MaxTableLen))
        \ {<<>>}

\* C18: Trie invariant.  In the tree make_trie builds from a table of 1 to
\* 254 distinct non-empty strings, the node reached by walking a string w
\* carries the terminal code i exactly when w is the entry of index i: also
\* when an entry is a prefix of another, whichever was inserted first, and
\* for the entry of index 0.
C18_TrieInvariant ==
    (/\ pc = "built"
     /\ custom_tree.by = "make_trie"
     /\ Len(custom_table) \in 1..254
     /\ ~HasDuplicate(custom_table)
     /\ NonEmptyEntries(custom_table))
        => /\ custom_tree.kind = "ok"
           /\ \A w \in Walks(custom_table, custom_tree.value.nodes) :
                \A i \in 0..(Len(custom_table) - 1) :
                    (/\ w \in DOMAIN custom_tree.value.nodes
                     /\ custom_tree.value.nodes[w].byte = i)
                        <=> At(custom_table, i) = w

\* The table ["ab", "a"]: the longer entry went in first, as index 0, and the
\* node of "a", made on the way, got the code 1 afterwards.
C18_Witness ==
    /\ pc = "built"
    /\ custom_tree.by = "make_trie"
    /\ custom_table = <<<<97, 98>>, <<97>>>>
    /\ custom_tree.value.nodes[<<97, 98>>].byte = 0
    /\ custom_tree.value.nodes[<<97>>].byte = 1

\* The figures of a backtracking decision, from the locals it starts with:
\* pos is past the unmatched character and unmatched holds it.
MergeLen == _worst_size(frame.pos - frame.last_backtrack_pos)
UnmergeLen ==
    Len(frame.backtrack_buff) + Len(frame.enc_buf) + _worst_size(Len(frame.unmatched))
CommitCondition ==
    \/ MergeLen > UnmergeLen + 2
    \/ frame.pos - frame.last_backtrack_pos > enc_args.backtrack_limit
    \/ ~enc_args.backtracking

\* C19: Commit transition.  A backtracking decision with
\* merge_len > unmerge_len + 2, or with more than backtrack_limit characters
\* since the backtrack marker, or with backtracking off, appends
\* backtrack_buff and then enc_buf to output, empties both, keeps unmatched
\* and moves last_backtrack_pos to pos - 1.
C19_Commit ==
    [][(pc = "backtrack" /\ CommitCondition) =>
          /\ pc' = "loop"
          /\ frame' = [pos |-> frame.pos,
                       last_backtrack_pos |-> frame.pos - 1,
                       output |-> frame.output \o frame.backtrack_buff \o frame.enc_buf,
                       unmatched |-> frame.unmatched,
                       backtrack_buff |-> <<>>,
                       enc_buf |-> <<>>]]_vars

\* '123thewhich123' with backtracking on, after the decision at the second
\* "1": the run '123' and the codes of "the" and "which" are committed (14
\* bytes merged against 9 unmerged), the marker is on that "1".
C19_Witness ==
    /\ encoder = "compress"
    /\ enc_args.backtracking
    /\ enc_args.backtrack_limit = BACKTRACK_LIMIT
    /\ input_str = <<49, 50, 51, 116, 104, 101, 119, 104, 105, 99, 104, 49, 50, 51>>
    /\ pc = "loop"
    /\ frame = [pos |-> 12, last_backtrack_pos |-> 11,
                output |-> <<255, 2, 49, 50, 51, 1, 43>>,
                unmatched |-> <<49>>, backtrack_buff |-> <<>>, enc_buf |-> <<>>]

\* The positions of the decoded text that the tags from the n-th on carry as
\* literal bytes (after a tag 254 or in a run), the n-th tag starting at the
\* position at.
RECURSIVE LiteralCover(_, _, _)
LiteralCover(tags, n, at) ==
    IF n > Len(tags)
    THEN {}
    ELSE IF tags[n].tag < 254
         THEN LiteralCover(tags, n + 1, at + Len(DECODE[tags[n].tag + 1]))
         ELSE (at..(at + Len(tags[n].payload) - 1))
                 \cup LiteralCover(tags, n + 1, at + Len(tags[n].payload))
\* What the call in progress goes on to return.
FinalStream == compress(input_str, enc_args, <<>>).value

\* C20: Merge transition.  A backtracking decision whose commit condition
\* does not hold and whose merge_len is below unmerge_len empties enc_buf and
\* backtrack_buff, makes unmatched the text input_str[last_backtrack_pos:pos],
\* leaves output and last_backtrack_pos as they are, and the stream the call
\* returns carries every character of that span as a literal byte;
\* 'not-a-g00d-Exampl333' with the default arguments comes back as 20 bytes.
NotAGoodExample ==
    <<110, 111, 116, 45, 97, 45, 103, 48, 48, 100, 45, 69, 120, 97, 109, 112, 108,
      51, 51, 51>>
C20_Merge ==
    [][/\ (/\ encoder = "compress" /\ enc_args = CompressDefaults
           /\ input_str = NotAGoodExample /\ pc' = "compressed") =>
             (compressed'.kind = "ok" /\ Len(compressed'.value) = 20)
       /\ (pc = "backtrack" /\ ~CommitCondition /\ MergeLen < UnmergeLen) =>
          /\ pc' = "loop"
          /\ frame' = [pos |-> frame.pos,
                       last_backtrack_pos |-> frame.last_backtrack_pos,
                       output |-> frame.output,
                       unmatched |-> Slice(input_str, frame.last_backtrack_pos,
                                           frame.pos),
                       backtrack_buff |-> <<>>,
                       enc_buf |-> <<>>]
          /\ (frame.last_backtrack_pos)..(frame.pos - 1)
                \subseteq LiteralCover(WireTags(FinalStream, 0), 1, 0)]_vars

\* 'not-a-g00d-Exampl333' with the default arguments, after its second merge:
\* "d", "-", "E", "x", "a", "m", "p" and "l" had codes or a run of their own,
\* and '00d-Exampl3' is raw text again behind the five bytes of 'not-a-g'.
C20_Witness ==
    /\ encoder = "compress"
    /\ enc_args = CompressDefaults
    /\ input_str = NotAGoodExample
    /\ pc = "loop"
    /\ frame = [pos |-> 18, last_backtrack_pos |-> 7,
                output |-> <<132, 204, 4, 204, 59>>,
                unmatched |-> <<48, 48, 100, 45, 69, 120, 97, 109, 112, 108, 51>>,
                backtrack_buff |-> <<>>, enc_buf |-> <<>>]

\* The condition of the last branch of a backtracking decision.
DeferCondition ==
    /\ enc_args.backtracking
    /\ frame.pos - frame.last_backtrack_pos <= enc_args.backtrack_limit
    /\ UnmergeLen <= MergeLen
    /\ MergeLen <= UnmergeLen + 2

\* C21: Defer transition.  A backtracking decision with backtracking on, a
\* span within backtrack_limit and unmerge_len <= merge_len <= unmerge_len + 2
\* appends enc_buf to backtrack_buff and empties enc_buf, with output, pos and
\* last_backtrack_pos as they were; at the end of the input the encapsulated
\* unmatched characters follow into backtrack_buff and unmatched is emptied,
\* anywhere else unmatched stays.
C21_Defer ==
    [][(pc = "backtrack" /\ DeferCondition) =>
          /\ pc' = "loop"
          /\ frame' = [pos |-> frame.pos,
                       last_backtrack_pos |-> frame.last_backtrack_pos,
                       output |-> frame.output,
                       unmatched |-> IF frame.pos = Len(input_str)
                                     THEN <<>> ELSE frame.unmatched,
                       backtrack_buff |->
                          frame.backtrack_buff \o frame.enc_buf
                             \o (IF frame.pos = Len(input_str)
                                 THEN _encapsulate(frame.unmatched) ELSE <<>>),
                       enc_buf |-> <<>>]]_vars

\* ' !p' with the default arguments, after "!" followed the code of " ":
\* merging costs 4 bytes and keeping the code 3, the code waits in
\* backtrack_buff and "!" stays unmatched.
C21_Witness ==
    /\ encoder = "compress"
    /\ enc_args = CompressDefaults
    /\ input_str = <<32, 33, 112>>
    /\ pc = "loop"
    /\ frame = [pos |-> 2, last_backtrack_pos |-> 0, output |-> <<>>,
                unmatched |-> <<33>>, backtrack_buff |-> <<0>>, enc_buf |-> <<>>]

\* What the decoder makes of a stream, no ASCII check on the text.
Decoded(stream) == decompress(stream, TRUE, FALSE, <<>>)
\* The stream a flush of the encoder's buffers would give.
Flushed(st) ==
    st.output \o st.backtrack_buff \o _encapsulate(st.unmatched) \o st.enc_buf

\* C22: Encoder prefix invariant.  Between two iterations of compress's main
\* loop, output ++ backtrack_buff ++ encapsulate(unmatched) ++ enc_buf decodes
\* to input_str[0:pos]; the stream compress returns decodes to the whole input.
C22_PrefixInvariant ==
    /\ (encoder = "compress" /\ pc = "loop") =>
          Decoded(Flushed(frame)) = Ok(Slice(input_str, 0, frame.pos))
    /\ (encoder = "compress" /\ pc = "compressed" /\ Returned) =>
          Decoded(compressed.value) = Ok(input_str)

\* ' !p' without backtracking, after its last iteration: the code of " " is
\* committed, "!" waits encapsulated in backtrack_buff and the code of "p" in
\* enc_buf.
C22_Witness ==
    /\ encoder = "compress"
    /\ ~enc_args.backtracking
    /\ input_str = <<32, 33, 112>>
    /\ pc = "loop"
    /\ frame.pos = 3
    /\ frame.output = <<0>>
    /\ frame.backtrack_buff = <<254, 33>>
    /\ Len(frame.enc_buf) = 1
    /\ frame.unmatched = <<>>

IsPrefix(s, t) == Len(s) <= Len(t) /\ SubSeq(t, 1, Len(s)) = s
InLoop(p) == p \in {"loop", "backtrack"}

\* C23: Anchor invariant.  At every backtracking decision of compress the
\* committed output decodes to input_str[0:last_backtrack_pos] and
\* last_backtrack_pos <= pos; after a merge, output followed by the
\* encapsulated unmatched characters decodes to input_str[0:pos], no character
\* lost and none twice; from one step of the loop to the next output only
\* grows at its end.
C23_AnchorInvariant ==
    [][/\ pc = "backtrack" =>
             /\ Decoded(frame.output) = Ok(Slice(input_str, 0, frame.last_backtrack_pos))
             /\ frame.last_backtrack_pos <= frame.pos
       /\ (pc = "backtrack" /\ ~CommitCondition /\ MergeLen < UnmergeLen) =>
             /\ frame'.output = frame.output
             /\ Decoded(frame'.output \o _encapsulate(frame'.unmatched))
                   = Ok(Slice(input_str, 0, frame.pos))
       /\ (encoder = "compress" /\ InLoop(pc) /\ InLoop(pc')) =>
             IsPrefix(frame.output, frame'.output)]_vars

\* 'not-a-g00d-Exampl333' with the default arguments at the decision that
\* merges '00d-E': the five bytes of 'not-a-g' are committed, the marker is 7.
C23_Witness ==
    /\ encoder = "compress"
    /\ enc_args = CompressDefaults
    /\ input_str = NotAGoodExample
    /\ pc = "backtrack"
    /\ frame = [pos |-> 12, last_backtrack_pos |-> 7,
                output |-> <<132, 204, 4, 204, 59>>,
                unmatched |-> <<69>>,
                backtrack_buff |-> <<255, 1, 48, 48>>,
                enc_buf |-> <<24, 204>>]

\* compress's keyword arguments with check_ascii and backtracking off.
ClassicLike(p) ==
    {a \in CompressArgs : /\ ~a.check_ascii
                          /\ ~a.backtracking
                          /\ a.pathological_case_detection = p}

\* C24: Classic equivalence.  What compress_classic returns for a text and a
\* setting p of pathological_case_detection is, byte for byte, what compress
\* returns for them with check_ascii and backtracking off and the default tree.
C24_ClassicEquivalence ==
    (Called("compress_classic") /\ pc = "compressed") =>
        \A a \in ClassicLike(enc_args.pathological_case_detection) :
            compress(input_str, a, <<>>) = compressed

\* ' !p': a code, an unmatched character, a code.
C24_Witness ==
    /\ Called("compress_classic")
    /\ pc = "compressed"
    /\ input_str = <<32, 33, 112>>
    /\ compressed = Ok(<<0, 254, 33, 60>>)

\* C25: Decoder interpretation.  Of a stream that the wire format reads to
\* its end, decompress returns the text of its tags from left to right: the
\* table entry of a byte below 254, the byte after a 254, the L + 1 bytes
\* after a 255 and its length byte L, the next tag being the byte after them;
\* with check_ascii on and a byte above 127 in that text the call fails
\* instead.
C25_DecoderInterpretation ==
    (pc = "decompressed" /\ WellFormed(compressed.value)) =>
        decompressed = IF dec_args.check_ascii /\ ~IsAscii(WireText(compressed.value))
                       THEN Failure
                       ELSE Ok(WireText(compressed.value))

\* A code, then a run of two bytes that are 254 and 255 and end the stream:
\* they come out as text.
C25_Witness ==
    /\ pc = "decompressed"
    /\ compressed = Ok(<<1, 255, 1, 254, 255>>)
    /\ ~dec_args.check_ascii
    /\ decompressed = Ok(DECODE[2] \o <<254, 255>>)

\* A stream of whole tags, with runs of 2 to 255 bytes (length byte 1..254)
\* and so a single byte always behind a 254.
WireFormat(s) ==
    LET tags == WireTags(s, 0)
    IN  \A n \in 1..Len(tags) :
           /\ tags[n].missing = ""
           /\ tags[n].tag = 254 => Len(tags[n].payload) = 1
           /\ tags[n].tag = 255 => Len(tags[n].payload) \in 2..255

\* C26: Emitted wire format.  Every stream compress, compress_classic or
\* _encapsulate returns reads to its end as codes 0..253, single literals
\* (254 and a byte) and runs (255, L, L + 1 bytes) with 1 <= L <= 254: one
\* literal byte is never a run, and no run holds more than 255 bytes.
C26_WireFormat ==
    (pc = "compressed" /\ Returned) => WireFormat(compressed.value)

\* 'the' and 256 times '1' from compress with the default arguments: a code,
\* a run of 255 bytes, then one byte behind a 254.
C26_Witness ==
    /\ Called("compress")
    /\ enc_args = CompressDefaults
    /\ input_str = <<116, 104, 101>> \o Repeat(<<49>>, 256)
    /\ compressed = Ok(<<1, 255, 254>> \o Repeat(<<49>>, 255) \o <<254, 49>>)

\* C27: Encapsulation variants agree.  For every raw string that is not
\* empty, the joined _encapsulate_list of its characters is the string
\* _encapsulate returns for it, and decompress gives the raw string back.
C27_EncapsulateVariants ==
    (Called("_encapsulate_list") /\ input_str # <<>>) =>
        /\ compressed = Ok(_encapsulate(input_str))
        /\ pc = "decompressed" => decompressed = Ok(input_str)

\* Two full chunks and one byte more, through _encapsulate_list and back.
C27_Witness ==
    /\ Called("_encapsulate_list")
    /\ pc = "decompressed"
    /\ Len(input_str) = 511
    /\ input_str[1] = 255
    /\ Len(compressed.value) = 516
    /\ decompressed = Ok(input_str)

\* The span a backtracking decision looks back on.
Span == frame.pos - frame.last_backtrack_pos

Running == pc \in {"check", "loop", "backtrack", "decoding"}
\* The outcomes a call returns with.
Outcomes == {"ok", "None", "ValueError"}

\* C29: Termination.  Every call of compress, compress_classic and
\* decompress returns, with a result or an error.  An iteration of an
\* encoder's loop moves pos forward by at least one character and not past
\* the end of the text, the backtracking decision leaves pos where it is, an
\* iteration of the decoder's loop moves pos forward or raises.
C29_Termination ==
    /\ [][/\ (encoder = "compress" /\ pc = "loop" /\ InLoop(pc')) =>
                (frame'.pos > frame.pos /\ frame'.pos <= Len(input_str))
          /\ pc = "backtrack" => frame'.pos = frame.pos
          /\ (encoder = "compress_classic" /\ pc = "loop" /\ pc' = "loop") =>
                (frame'.pos > frame.pos /\ frame'.pos <= Len(input_str))
          /\ (pc = "decoding" /\ pc' = "decoding") =>
                \/ frame'.error # ""
                \/ frame'.pos > frame.pos /\ frame'.pos <= Len(compressed.value)]_vars
    /\ (pc \in {"check", "loop", "backtrack"})
          ~> (pc = "compressed" /\ compressed.kind \in Outcomes)
    /\ (pc = "decoding") ~> (pc = "decompressed" /\ decompressed.kind \in Outcomes)

\* 'not-a-g00d-Exampl333' through compress with its merges, then through
\* the decoder's seven iterations.
C29_Witness ==
    /\ encoder = "compress"
    /\ enc_args = CompressDefaults
    /\ input_str = NotAGoodExample
    /\ pc = "decompressed"
    /\ frame.pos = 20
    /\ decompressed = Ok(input_str)

\* C30: Custom tree format.  compress given the tree make_tree built from a
\* table compresses with it and returns what it returns given make_trie's
\* tree of the same table.
C30_CustomTreeFormat ==
    (pc = "compressed" /\ encoder = "compress" /\ custom_tree.kind = "ok"
        /\ custom_tree.by = "make_tree") =>
        /\ compressed.kind \in {"ok", "None", "ValueError"}
        /\ compressed = compress(input_str, enc_args, make_trie(custom_table).value)

=============================================================================
